---- MODULE Spec2Model ----
(***************************************************************************)
(* A model of two translation units of gvfs:                               *)
(*   gio/inotify/inotify-helper.c  the inotify subscription registry and   *)
(*                                 the translator of kernel events         *)
(*   gio/gsocketinputstream.c      the cancellable socket input stream     *)
(*                                                                         *)
(* The specifications of the module:                                       *)
(*   SpecMask    ih_mask_to_EventFlags applied to bounded masks            *)
(*   SpecIh      _ih_startup, _ih_sub_add, _ih_sub_cancel, the kernel      *)
(*               event path and the missing-path scan under inotify_lock,  *)
(*               and targets' handlers calling back into the registry      *)
(*   SpecStream  read, close, read_async, close_async of one stream        *)
(*   SpecStreamLive  SpecStream with read_async_cb running to its return   *)
(***************************************************************************)
EXTENDS Integers, Sequences, FiniteSets

VARIABLES
    \* ---- SpecMask
    mk_mask,        \* the guint32 mask handed to ih_mask_to_EventFlags, as a bit set
    mk_res,         \* <<>> before the call, <<eflags>> after it
    \* ---- SpecIh
    initialized,    \* _ih_startup: static gboolean initialized
    result,         \* _ih_startup: static gboolean result
    nStartupCalls,  \* calls of _ih_startup made so far
    nIpStartup,     \* calls of _ip_startup
    nImStartup,     \* calls of _im_startup
    nIdStartup,     \* calls of _id_startup
    nWarn,          \* g_warning ("Could not initialize inotify") issued
    lock,           \* holder of inotify_lock, or NoThread
    pc,             \* per caller: where it is in a public function
    arg,            \* per caller: the inotify_sub it was called with
    started,        \* per caller: what _ip_start_watching returned
    wasReg,         \* per caller: sub was in a set when the body began
    ret,            \* <<>>, or <<the value the last public function call returned>>
    cancelled,      \* sub->cancelled
    watching,       \* subs the kernel watch adapter (inotify-path) holds
    missing,        \* subs the missing-path tracker (inotify-missing) holds
    eq,             \* kernel events read and bound to a sub, not yet processed
    kpc,            \* the event-processing path: "idle" or "emitted" (lock held)
    mpc,            \* the missing-scan path: "idle" or "called" (lock held)
    emits,          \* emission calls made by the callback that is running, in order
    \* ---- SpecStream
    close_fd_at_close, \* priv->close_fd_at_close
    fd_open,        \* the descriptor priv->fd is open
    arrived,        \* bytes the peer has sent on the socket so far: bytes 1..arrived
    taken,          \* bytes read () has consumed so far: bytes 1..taken
    eof,            \* the peer has shut the connection down
    cancellable,    \* the GCancellable passed to the calls: "NULL" or "obj"
    c_cancelled,    \* the cancellable has been cancelled
    c_inflight,     \* it was cancelled while the read operation was between its
                    \* cancellation test and the return of read ()
    rpc,            \* where the read operation is (one read at a time)
    count,          \* the count the read was called with
    buffer,         \* the caller's buffer, 0 where nothing was written
    taken0,         \* the value of taken when the read operation was called
    res,            \* g_socket_input_stream_read: res; <<>> while unassigned
    count_read,     \* read_async_cb: count_read; <<>> while unassigned
    rerr,           \* the GError of the read: "none", "cancelled" or "io"
    rret,           \* <<>>, or <<what the sync read returned, or the op_res gssize>>
    nReadSys,       \* read () calls the operation has made
    nReadCb,        \* completions of the read_async registration
    r_tag,          \* source tag of the read's GSimpleAsyncResult, "none" before it exists
    r_errno,        \* errno left by the read operation's last failed poll () or read ()
    nCloseOps,      \* close and close_async calls made so far
    nCloseSys,      \* close () calls made so far
    closeRets,      \* what each g_socket_input_stream_close call returned, in order
    closeErr,       \* the last g_socket_input_stream_close set *error
    cpc,            \* close_async: "idle" or "scheduled" (the idle source is attached)
    c_result,       \* error slots of the completed close_async results, in order
    c_tag,          \* source tags of the completed close_async results, in order
    finishRets      \* per g_socket_input_stream_close_finish call: what it returned and its *error

mkVars == <<mk_mask, mk_res>>
ihVars == <<initialized, result, nStartupCalls, nIpStartup, nImStartup, nIdStartup,
            nWarn, lock, pc, arg, started, wasReg, ret, cancelled, watching,
            missing, eq, kpc, mpc, emits>>
stVars == <<close_fd_at_close, fd_open, arrived, taken, eof, cancellable,
            c_cancelled, c_inflight, rpc, count, buffer, taken0, res, count_read, rerr, rret,
            nReadSys, nReadCb, r_tag, r_errno,
            nCloseOps, nCloseSys, closeRets, closeErr, cpc,
            c_result, c_tag, finishRets>>
vars == <<mkVars, ihVars, stVars>>

(***************************************************************************)
(* inotify masks.  A guint32 mask is modelled as the set of its bits; each *)
(* IN_* name below is one distinct bit of the kernel ABI, so equality of   *)
(* masks is equality of sets and `mask &= ~IN_ISDIR' is set difference.    *)
(***************************************************************************)
IN_ACCESS        == "IN_ACCESS"
IN_MODIFY        == "IN_MODIFY"
IN_ATTRIB        == "IN_ATTRIB"
IN_CLOSE_WRITE   == "IN_CLOSE_WRITE"
IN_CLOSE_NOWRITE == "IN_CLOSE_NOWRITE"
IN_OPEN          == "IN_OPEN"
IN_MOVED_FROM    == "IN_MOVED_FROM"
IN_MOVED_TO      == "IN_MOVED_TO"
IN_CREATE        == "IN_CREATE"
IN_DELETE        == "IN_DELETE"
IN_DELETE_SELF   == "IN_DELETE_SELF"
IN_MOVE_SELF     == "IN_MOVE_SELF"
IN_UNMOUNT       == "IN_UNMOUNT"
IN_Q_OVERFLOW    == "IN_Q_OVERFLOW"
IN_IGNORED       == "IN_IGNORED"
IN_ISDIR         == "IN_ISDIR"
\* a bit of the mask word that the switch does not name
IN_ONESHOT       == "IN_ONESHOT"

\* the change-kind bits the switch of ih_mask_to_EventFlags names
KindBits == {IN_ACCESS, IN_MODIFY, IN_ATTRIB, IN_CLOSE_WRITE, IN_CLOSE_NOWRITE,
             IN_OPEN, IN_MOVED_FROM, IN_MOVED_TO, IN_CREATE, IN_DELETE,
             IN_DELETE_SELF, IN_MOVE_SELF, IN_UNMOUNT, IN_Q_OVERFLOW, IN_IGNORED}

\* GDirectoryMonitorEvent, in the order of its declaration
G_DIRECTORY_MONITOR_EVENT_CHANGED == 0
G_DIRECTORY_MONITOR_EVENT_DELETED == 1
G_DIRECTORY_MONITOR_EVENT_CREATED == 2
G_DIRECTORY_MONITOR_EVENT_ATTRIBUTE_CHANGED == 3
G_DIRECTORY_MONITOR_EVENT_UNMOUNTED == 4
\* the value ih_mask_to_EventFlags returns for a mask it does not translate
NoEvent == -1

RealEvents == {G_DIRECTORY_MONITOR_EVENT_CHANGED, G_DIRECTORY_MONITOR_EVENT_DELETED,
               G_DIRECTORY_MONITOR_EVENT_CREATED,
               G_DIRECTORY_MONITOR_EVENT_ATTRIBUTE_CHANGED,
               G_DIRECTORY_MONITOR_EVENT_UNMOUNTED}

\* mutant of StripIsDir: the is-directory bit is left in the mask
StripIsDir_keep(mask) == mask

\* mask &= ~IN_ISDIR
StripIsDir(mask) == mask \ {IN_ISDIR}

\* mutant of ih_mask_to_EventFlags: IN_MOVED_TO falls into the Deleted group
ih_mask_to_EventFlags_movedto(mask) ==
    LET m == StripIsDir(mask) IN
    CASE m = {IN_MODIFY} -> G_DIRECTORY_MONITOR_EVENT_CHANGED
      [] m = {IN_ATTRIB} -> G_DIRECTORY_MONITOR_EVENT_ATTRIBUTE_CHANGED
      [] m \in {{IN_MOVE_SELF}, {IN_MOVED_FROM}, {IN_DELETE}, {IN_DELETE_SELF},
                {IN_MOVED_TO}}
                         -> G_DIRECTORY_MONITOR_EVENT_DELETED
      [] m = {IN_CREATE} -> G_DIRECTORY_MONITOR_EVENT_CREATED
      [] m = {IN_UNMOUNT} -> G_DIRECTORY_MONITOR_EVENT_UNMOUNTED
      [] OTHER -> NoEvent

\* mutant of ih_mask_to_EventFlags: the switch tests bits instead of the whole value
ih_mask_to_EventFlags_anybit(mask) ==
    LET m == StripIsDir(mask) IN
    CASE IN_MODIFY \in m -> G_DIRECTORY_MONITOR_EVENT_CHANGED
      [] IN_ATTRIB \in m -> G_DIRECTORY_MONITOR_EVENT_ATTRIBUTE_CHANGED
      [] m \cap {IN_MOVE_SELF, IN_MOVED_FROM, IN_DELETE, IN_DELETE_SELF} # {}
                         -> G_DIRECTORY_MONITOR_EVENT_DELETED
      [] m \cap {IN_CREATE, IN_MOVED_TO} # {} -> G_DIRECTORY_MONITOR_EVENT_CREATED
      [] IN_UNMOUNT \in m -> G_DIRECTORY_MONITOR_EVENT_UNMOUNTED
      [] OTHER -> NoEvent

\* ih_mask_to_EventFlags: the switch on the whole (stripped) mask value
ih_mask_to_EventFlags(mask) ==
    LET m == StripIsDir(mask) IN
    CASE m = {IN_MODIFY} -> G_DIRECTORY_MONITOR_EVENT_CHANGED
      [] m = {IN_ATTRIB} -> G_DIRECTORY_MONITOR_EVENT_ATTRIBUTE_CHANGED
      [] m \in {{IN_MOVE_SELF}, {IN_MOVED_FROM}, {IN_DELETE}, {IN_DELETE_SELF}}
                         -> G_DIRECTORY_MONITOR_EVENT_DELETED
      [] m \in {{IN_CREATE}, {IN_MOVED_TO}} -> G_DIRECTORY_MONITOR_EVENT_CREATED
      [] m = {IN_UNMOUNT} -> G_DIRECTORY_MONITOR_EVENT_UNMOUNTED
      \* IN_Q_OVERFLOW, IN_OPEN, IN_CLOSE_WRITE, IN_CLOSE_NOWRITE, IN_ACCESS,
      \* IN_IGNORED and default
      [] OTHER -> NoEvent


(***************************************************************************)
(* The subscription registry.                                              *)
(***************************************************************************)
\* the application threads that call the public functions
Threads == {"t1", "t2"}
\* lock holders besides the application threads: inotify-kernel.c's event
\* processing and inotify-missing.c's scan of the missing list
KernelThread == "K"
MissingThread == "M"
NoThread == "none"
\* whoever can call a public function: an application thread, or a target's
\* handler that runs inside an emission call on the kernel-event path or
\* on the missing-scan path
CallbackThreads == {KernelThread, MissingThread}
Callers == Threads \cup CallbackThreads

\* two subscriptions: a directory monitor without a filename, and a file
\* monitor whose sub->filename is set
Subs == {"dsub", "fsub"}
UserData(sub) == IF sub = "dsub" THEN "GDirectoryMonitor" ELSE "GFileMonitor"
G_IS_DIRECTORY_MONITOR(sub) == UserData(sub) = "GDirectoryMonitor"
G_IS_FILE_MONITOR(sub) == UserData(sub) = "GFileMonitor"
HasFilename(sub) == sub = "fsub"

\* event->name: NULL or a name
NoName == "NULL"
Names == {NoName, "entry"}

\* the masks of the kernel events SpecIh draws from: one that maps to a
\* domain event, one with the is-directory bit, one of the ignored group
IhEventMasks == {{IN_MODIFY}, {IN_CREATE, IN_ISDIR}, {IN_IGNORED}}

\* bounds
MaxKindBits == 2
MaxQueue == 1
MaxStartupCalls == 2

\* one emission call: the entry point, the monitor (by its sub), the child
\* GFile (by the pieces of the path it was made from) and the event
Emission(via, sub, child, eflags) ==
    [via |-> via, sub |-> sub, child |-> child, eflags |-> eflags]

\* mutant of Dispatch: the second test is not in an else branch and is made
\* on the same object as the first, so a directory monitor gets a call
\* through each entry point
Dispatch_both(sub, child, eflags) ==
    (IF G_IS_DIRECTORY_MONITOR(sub)
     THEN <<Emission("g_directory_monitor_emit_event", sub, child, eflags)>>
     ELSE <<>>)
    \o (IF G_IS_DIRECTORY_MONITOR(sub) \/ G_IS_FILE_MONITOR(sub)
        THEN <<Emission("g_file_monitor_emit_event", sub, child, eflags)>>
        ELSE <<>>)

\* the dispatch on the type of sub->user_data, common to both callbacks
Dispatch(sub, child, eflags) ==
    IF G_IS_DIRECTORY_MONITOR(sub)
    THEN <<Emission("g_directory_monitor_emit_event", sub, child, eflags)>>
    ELSE IF G_IS_FILE_MONITOR(sub)
    THEN <<Emission("g_file_monitor_emit_event", sub, child, eflags)>>
    ELSE <<>>

\* ih_event_callback: the emission calls it makes for (event, sub)
ih_event_callback(event, sub) ==
    LET eflags == ih_mask_to_EventFlags(event.mask)
        fullpath == IF event.name # NoName THEN <<sub, "/", event.name>>
                                           ELSE <<sub, "/">>
    IN  Dispatch(sub, fullpath, eflags)

\* ih_not_missing_callback: the emission calls it makes for sub, given what
\* g_file_test (fullpath, G_FILE_TEST_EXISTS) answers
ih_not_missing_callback(sub, exists) ==
    IF HasFilename(sub)
    THEN IF ~exists THEN <<>>
         ELSE Dispatch(sub, <<sub, "/", "filename">>,
                       ih_mask_to_EventFlags({IN_CREATE}))
    ELSE Dispatch(sub, <<sub>>, ih_mask_to_EventFlags({IN_CREATE, IN_ISDIR}))

\* the state of the registry before _ih_startup has been called
IhInit ==
    /\ initialized = FALSE
    /\ result = FALSE
    /\ nStartupCalls = 0
    /\ nIpStartup = 0
    /\ nImStartup = 0
    /\ nIdStartup = 0
    /\ nWarn = 0
    /\ lock = NoThread
    /\ pc = [t \in Callers |-> "idle"]
    /\ arg = [t \in Callers |-> "dsub"]
    /\ started = [t \in Callers |-> FALSE]
    /\ wasReg = [t \in Callers |-> FALSE]
    /\ ret = <<>>
    /\ cancelled = [s \in Subs |-> FALSE]
    /\ watching = {}
    /\ missing = {}
    /\ eq = <<>>
    /\ kpc = "idle"
    /\ mpc = "idle"
    /\ emits = <<>>

startupVars == <<initialized, result, nStartupCalls, nIpStartup, nImStartup,
                 nIdStartup, nWarn>>
subVars == <<cancelled, watching, missing>>
pathVars == <<eq, kpc, mpc, emits>>

\* mutant of G_LOCK: the lock is taken without waiting for it to be free
G_LOCK_nowait(t) == lock' = t

\* G_LOCK (inotify_lock): the caller waits until the lock is free, then holds it
G_LOCK(t) == lock = NoThread /\ lock' = t

\* G_UNLOCK (inotify_lock)
G_UNLOCK(t) == lock = t /\ lock' = NoThread

---------------------------------------------------------------------------
\* a thread calls _ih_startup and gets past G_LOCK(inotify_lock); a caller
\* that finds the lock held waits in G_LOCK and changes nothing until then
StartupLock(t) ==
    /\ pc[t] = "idle"
    /\ nStartupCalls < MaxStartupCalls
    /\ G_LOCK(t)
    /\ nStartupCalls' = nStartupCalls + 1
    /\ pc' = [pc EXCEPT ![t] = "su_body"]
    /\ UNCHANGED <<initialized, result, nIpStartup, nImStartup, nIdStartup, nWarn,
                   arg, started, wasReg, ret, subVars, pathVars>>

\* _ih_startup between G_LOCK and the G_UNLOCK of the path taken: the latch
\* test, _ip_startup (which may fail), the warning, _im_startup, _id_startup
\* and the setting of the latch
StartupBody(t) ==
    /\ pc[t] = "su_body"
    /\ IF initialized = TRUE
       THEN /\ pc' = [pc EXCEPT ![t] = "su_ret_cached"]
            /\ UNCHANGED <<initialized, result, nIpStartup, nImStartup,
                           nIdStartup, nWarn>>
       ELSE \E ok \in BOOLEAN :
              /\ result' = ok
              /\ nIpStartup' = nIpStartup + 1
              /\ IF ~ok
                 THEN /\ nWarn' = nWarn + 1
                      /\ pc' = [pc EXCEPT ![t] = "su_ret_fail"]
                      /\ UNCHANGED <<initialized, nImStartup, nIdStartup>>
                 ELSE /\ nImStartup' = nImStartup + 1
                      /\ nIdStartup' = nIdStartup + 1
                      /\ initialized' = TRUE
                      /\ pc' = [pc EXCEPT ![t] = "su_ret_ok"]
                      /\ UNCHANGED nWarn
    /\ UNCHANGED <<nStartupCalls, lock, arg, started, wasReg, ret, subVars, pathVars>>

\* mutant of StartupReturn: the failure path returns without G_UNLOCK
StartupReturn_leak(t) ==
    /\ pc[t] \in {"su_ret_cached", "su_ret_fail", "su_ret_ok"}
    /\ IF pc[t] = "su_ret_fail" THEN lock = t /\ UNCHANGED lock ELSE G_UNLOCK(t)
    /\ ret' = CASE pc[t] = "su_ret_cached" -> <<result>>
                 [] pc[t] = "su_ret_fail" -> <<FALSE>>
                 [] OTHER -> <<TRUE>>
    /\ pc' = [pc EXCEPT ![t] = "idle"]
    /\ UNCHANGED <<startupVars, arg, started, wasReg, subVars, pathVars>>

\* _ih_startup: G_UNLOCK(inotify_lock) and the return of the path taken
StartupReturn(t) ==
    /\ pc[t] \in {"su_ret_cached", "su_ret_fail", "su_ret_ok"}
    /\ G_UNLOCK(t)
    /\ ret' = CASE pc[t] = "su_ret_cached" -> <<result>>
                 [] pc[t] = "su_ret_fail" -> <<FALSE>>
                 [] OTHER -> <<TRUE>>
    /\ pc' = [pc EXCEPT ![t] = "idle"]
    /\ UNCHANGED <<startupVars, arg, started, wasReg, subVars, pathVars>>

---------------------------------------------------------------------------
\* caller t is at the G_LOCK of public function fn called with sub: an
\* application thread comes to it from its idle state, a target's handler
\* has called fn from inside an emission and waits there
AtLock(t, fn, sub) ==
    IF t \in Threads THEN pc[t] = "idle"
                     ELSE pc[t] = fn /\ arg[t] = sub

\* a target's handler, run by the emission call that callback thread c is
\* in (c holds inotify_lock), calls _ih_sub_add (sub) or _ih_sub_cancel
\* (sub) and arrives at that function's G_LOCK
TargetReenters(c, fn, sub) ==
    /\ c \in CallbackThreads
    /\ fn \in {"add_wait", "cancel_wait"}
    /\ lock = c
    /\ emits # <<>>
    /\ pc[c] = "idle"
    /\ pc' = [pc EXCEPT ![c] = fn]
    /\ arg' = [arg EXCEPT ![c] = sub]
    /\ UNCHANGED <<startupVars, lock, started, wasReg, ret, subVars, pathVars>>

\* a caller of _ih_sub_add (sub) gets past G_LOCK(inotify_lock);
\* _ih_startup has succeeded before, as the comment above _ih_startup requires
AddLock(t, sub) ==
    /\ AtLock(t, "add_wait", sub)
    /\ initialized = TRUE
    /\ G_LOCK(t)
    /\ pc' = [pc EXCEPT ![t] = "add_start"]
    /\ arg' = [arg EXCEPT ![t] = sub]
    /\ wasReg' = [wasReg EXCEPT ![t] = sub \in watching \cup missing]
    /\ UNCHANGED <<startupVars, started, ret, subVars, pathVars>>

\* _ip_start_watching (sub): the adapter starts a watch and holds the sub, or
\* fails (the path does not exist, or a resource limit) and holds nothing more
ip_start_watching(sub, ok) ==
    watching' = IF ok THEN watching \cup {sub} ELSE watching

\* _im_add (sub): the missing-path tracker holds the sub
im_add(sub) == missing' = missing \cup {sub}

\* _im_rm (sub)
im_rm(sub) == missing' = missing \ {sub}

\* _ip_stop_watching (sub)
ip_stop_watching(sub) == watching' = watching \ {sub}

\* mutant of AddStart: the result of _ip_start_watching is read inverted
AddStart_inverted(t) ==
    /\ pc[t] = "add_start"
    /\ \E ok \in BOOLEAN :
          /\ ip_start_watching(arg[t], ok)
          /\ started' = [started EXCEPT ![t] = ok]
          /\ pc' = [pc EXCEPT ![t] = IF ok THEN "add_im" ELSE "add_ret"]
    /\ UNCHANGED <<startupVars, lock, arg, wasReg, ret, cancelled, missing, pathVars>>

\* _ih_sub_add: if (!_ip_start_watching (sub))
AddStart(t) ==
    /\ pc[t] = "add_start"
    /\ \E ok \in BOOLEAN :
          /\ ip_start_watching(arg[t], ok)
          /\ started' = [started EXCEPT ![t] = ok]
          /\ pc' = [pc EXCEPT ![t] = IF ok THEN "add_ret" ELSE "add_im"]
    /\ UNCHANGED <<startupVars, lock, arg, wasReg, ret, cancelled, missing, pathVars>>

\* _ih_sub_add: _im_add (sub)
AddIm(t) ==
    /\ pc[t] = "add_im"
    /\ im_add(arg[t])
    /\ pc' = [pc EXCEPT ![t] = "add_ret"]
    /\ UNCHANGED <<startupVars, lock, arg, started, wasReg, ret, cancelled,
                   watching, pathVars>>

\* the frame of a call is gone once it returns
Leave(t) ==
    /\ arg' = [arg EXCEPT ![t] = "dsub"]
    /\ started' = [started EXCEPT ![t] = FALSE]
    /\ wasReg' = [wasReg EXCEPT ![t] = FALSE]

\* _ih_sub_add: G_UNLOCK(inotify_lock); return TRUE
AddReturn(t) ==
    /\ pc[t] = "add_ret"
    /\ G_UNLOCK(t)
    /\ ret' = <<TRUE>>
    /\ pc' = [pc EXCEPT ![t] = "idle"]
    /\ Leave(t)
    /\ UNCHANGED <<startupVars, subVars, pathVars>>

---------------------------------------------------------------------------
\* a caller of _ih_sub_cancel (sub) gets past G_LOCK(inotify_lock)
CancelLock(t, sub) ==
    /\ AtLock(t, "cancel_wait", sub)
    /\ initialized = TRUE
    /\ G_LOCK(t)
    /\ pc' = [pc EXCEPT ![t] = "cancel_check"]
    /\ arg' = [arg EXCEPT ![t] = sub]
    /\ UNCHANGED <<startupVars, started, wasReg, ret, subVars, pathVars>>

\* mutant of CancelCheck: the flag is not tested, every call runs the removal
CancelCheck_always(t) ==
    /\ pc[t] = "cancel_check"
    /\ cancelled' = [cancelled EXCEPT ![arg[t]] = TRUE]
    /\ pc' = [pc EXCEPT ![t] = "cancel_im_rm"]
    /\ UNCHANGED <<startupVars, lock, arg, started, wasReg, ret, watching, missing,
                   pathVars>>

\* _ih_sub_cancel: if (!sub->cancelled) { sub->cancelled = TRUE;
CancelCheck(t) ==
    /\ pc[t] = "cancel_check"
    /\ IF ~cancelled[arg[t]]
       THEN /\ cancelled' = [cancelled EXCEPT ![arg[t]] = TRUE]
            /\ pc' = [pc EXCEPT ![t] = "cancel_im_rm"]
       ELSE /\ pc' = [pc EXCEPT ![t] = "cancel_ret"]
            /\ UNCHANGED cancelled
    /\ UNCHANGED <<startupVars, lock, arg, started, wasReg, ret, watching, missing,
                   pathVars>>

\* _ih_sub_cancel: _im_rm (sub)
CancelImRm(t) ==
    /\ pc[t] = "cancel_im_rm"
    /\ im_rm(arg[t])
    /\ pc' = [pc EXCEPT ![t] = "cancel_ip_stop"]
    /\ UNCHANGED <<startupVars, lock, arg, started, wasReg, ret, cancelled,
                   watching, pathVars>>

\* _ih_sub_cancel: _ip_stop_watching (sub)
CancelIpStop(t) ==
    /\ pc[t] = "cancel_ip_stop"
    /\ ip_stop_watching(arg[t])
    /\ pc' = [pc EXCEPT ![t] = "cancel_ret"]
    /\ UNCHANGED <<startupVars, lock, arg, started, wasReg, ret, cancelled,
                   missing, pathVars>>

\* _ih_sub_cancel: G_UNLOCK(inotify_lock); return TRUE
CancelReturn(t) ==
    /\ pc[t] = "cancel_ret"
    /\ G_UNLOCK(t)
    /\ ret' = <<TRUE>>
    /\ pc' = [pc EXCEPT ![t] = "idle"]
    /\ Leave(t)
    /\ UNCHANGED <<startupVars, subVars, pathVars>>

---------------------------------------------------------------------------
\* inotify-kernel.c, under the lock: an event of a watched directory is read
\* from the kernel and queued for the sub that watches it
KernelRead(sub, mask, name) ==
    /\ lock = NoThread
    /\ sub \in watching
    /\ Len(eq) < MaxQueue
    /\ eq' = Append(eq, [mask |-> mask, name |-> name, sub |-> sub])
    /\ UNCHANGED <<startupVars, lock, pc, arg, started, wasReg, ret, subVars,
                   kpc, mpc, emits>>

\* inotify-kernel.c takes the lock and processes a queued event: the
\* callback registered with _ip_startup, ih_event_callback, runs with the
\* lock held and makes its emission calls
KernelDispatch ==
    /\ kpc = "idle"
    /\ eq # <<>>
    /\ G_LOCK(KernelThread)
    /\ eq' = Tail(eq)
    /\ emits' = ih_event_callback(Head(eq), Head(eq).sub)
    /\ kpc' = "emitted"
    /\ UNCHANGED <<startupVars, pc, arg, started, wasReg, ret, subVars, mpc>>

\* the callback has returned; inotify-kernel.c releases the lock
KernelReturn ==
    /\ kpc = "emitted"
    /\ pc[KernelThread] = "idle"
    /\ G_UNLOCK(KernelThread)
    /\ kpc' = "idle"
    /\ emits' = <<>>
    /\ UNCHANGED <<startupVars, pc, arg, started, wasReg, ret, subVars, eq, mpc>>

\* inotify-missing.c takes the lock and scans the missing list: a sub whose
\* path now exists is watched, leaves the list, and the callback registered
\* with _im_startup, ih_not_missing_callback, runs with the lock held
MissingScan(sub, exists) ==
    /\ mpc = "idle"
    /\ sub \in missing
    /\ G_LOCK(MissingThread)
    /\ missing' = missing \ {sub}
    /\ watching' = watching \cup {sub}
    /\ emits' = ih_not_missing_callback(sub, exists)
    /\ mpc' = "called"
    /\ UNCHANGED <<startupVars, pc, arg, started, wasReg, ret, cancelled, eq, kpc>>

\* the callback has returned; inotify-missing.c releases the lock
MissingReturn ==
    /\ mpc = "called"
    /\ pc[MissingThread] = "idle"
    /\ G_UNLOCK(MissingThread)
    /\ mpc' = "idle"
    /\ emits' = <<>>
    /\ UNCHANGED <<startupVars, pc, arg, started, wasReg, ret, subVars, eq, kpc>>

(***************************************************************************)
(* The cancellable socket input stream.  One stream handle; the socket     *)
(* carries the bytes 1, 2, ... in order, so a byte's value is its place    *)
(* in the stream and 0 in the buffer means "not written".                  *)
(***************************************************************************)
\* bounds
MaxData == 2
BufSize == 2
MaxRetries == 2
MaxCloseOps == 2

Cancellables == {"NULL", "obj"}

\* g_cancellable_get_fd (cancellable) != -1: a NULL cancellable has no fd
HasCancelFd == cancellable # "NULL"

\* g_cancellable_set_error_if_cancelled (cancellable, error) returns TRUE
IsCancelled == cancellable # "NULL" /\ c_cancelled

\* what an uninitialised gssize may hold when it is read
Garbage == -1 .. BufSize

Min(a, b) == IF a < b THEN a ELSE b
Zeros == [i \in 1..BufSize |-> 0]

\* the buffer after read () has stored the next n bytes of the socket in it
Filled(buf, n) == [i \in 1..BufSize |-> IF i <= n THEN taken + i ELSE buf[i]]

StreamInit ==
    /\ close_fd_at_close \in BOOLEAN
    /\ fd_open = TRUE
    /\ arrived \in 0..MaxData
    /\ taken = 0
    /\ eof = FALSE
    /\ cancellable \in Cancellables
    /\ c_cancelled = FALSE
    /\ c_inflight = FALSE
    /\ rpc = "idle"
    /\ count = 1
    /\ buffer = Zeros
    /\ taken0 = 0
    /\ res = <<>>
    /\ count_read = <<>>
    /\ rerr = "none"
    /\ rret = <<>>
    /\ nReadSys = 0
    /\ nReadCb = 0
    /\ r_tag = "none"
    /\ r_errno = "none"
    /\ nCloseOps = 0
    /\ nCloseSys = 0
    /\ closeRets = <<>>
    /\ closeErr = FALSE
    /\ cpc = "idle"
    /\ c_result = <<>>
    /\ c_tag = <<>>
    /\ finishRets = <<>>

\* the stream's part of the state in a specification that does not use it
StreamIdle ==
    /\ close_fd_at_close = FALSE
    /\ fd_open = TRUE
    /\ arrived = 0
    /\ taken = 0
    /\ eof = FALSE
    /\ cancellable = "NULL"
    /\ c_cancelled = FALSE
    /\ c_inflight = FALSE
    /\ rpc = "idle"
    /\ count = 1
    /\ buffer = Zeros
    /\ taken0 = 0
    /\ res = <<>>
    /\ count_read = <<>>
    /\ rerr = "none"
    /\ rret = <<>>
    /\ nReadSys = 0
    /\ nReadCb = 0
    /\ r_tag = "none"
    /\ r_errno = "none"
    /\ nCloseOps = 0
    /\ nCloseSys = 0
    /\ closeRets = <<>>
    /\ closeErr = FALSE
    /\ cpc = "idle"
    /\ c_result = <<>>
    /\ c_tag = <<>>
    /\ finishRets = <<>>

sockVars == <<arrived, taken, eof>>
closeVars == <<close_fd_at_close, fd_open, nCloseOps, nCloseSys, closeRets,
               closeErr, cpc, c_result, c_tag, finishRets>>
readVars == <<rpc, count, buffer, taken0, res, count_read, rerr, rret, nReadSys,
              nReadCb, r_tag, r_errno>>

\* the peer sends one more byte
Arrive ==
    /\ arrived < MaxData
    /\ ~eof
    /\ arrived' = arrived + 1
    /\ UNCHANGED <<taken, eof, cancellable, c_cancelled, c_inflight, readVars, closeVars>>

\* the peer shuts the connection down
PeerShutdown ==
    /\ ~eof
    /\ eof' = TRUE
    /\ UNCHANGED <<arrived, taken, cancellable, c_cancelled, c_inflight, readVars, closeVars>>

\* some thread cancels the cancellable
CancelFire ==
    /\ cancellable # "NULL"
    /\ ~c_cancelled
    /\ c_cancelled' = TRUE
    /\ c_inflight' = (rpc \in {"s_read", "a_read"})
    /\ UNCHANGED <<sockVars, cancellable, readVars, closeVars>>

\* a read operation starts with a buffer of its own and nothing done yet
BeginRead(c) ==
    /\ rpc \in {"idle", "s_done", "a_done"}
    /\ count' = c
    /\ buffer' = Zeros
    /\ taken0' = taken
    /\ res' = <<>>
    /\ count_read' = <<>>
    /\ rerr' = "none"
    /\ rret' = <<>>
    /\ nReadSys' = 0
    /\ nReadCb' = 0
    /\ r_tag' = "none"
    /\ r_errno' = "none"
    /\ c_inflight' = FALSE

---------------------------------------------------------------------------
\* g_socket_input_stream_read is called: cancel_fd = g_cancellable_get_fd ();
\* the wait phase is entered only if (cancel_fd != -1)
ReadCall(c) ==
    /\ BeginRead(c)
    /\ rpc' = IF HasCancelFd THEN "s_poll" ELSE "s_check"
    /\ UNCHANGED <<sockVars, cancellable, c_cancelled, closeVars>>

\* poll (poll_fds, 2, -1) returns because one of the two descriptors is ready
SyncPollReady ==
    /\ rpc = "s_poll"
    /\ taken < arrived \/ eof \/ ~fd_open \/ c_cancelled
    /\ rpc' = "s_check"
    /\ UNCHANGED <<sockVars, cancellable, c_cancelled, c_inflight, closeVars, count, buffer,
                   taken0, res, count_read, rerr, rret, nReadSys, nReadCb, r_tag, r_errno>>

\* poll returns -1 with errno == EINTR: the do-while calls it again
SyncPollEintr ==
    /\ rpc = "s_poll"
    /\ r_errno' = "EINTR"
    /\ UNCHANGED <<sockVars, cancellable, c_cancelled, c_inflight, closeVars, rpc, count, buffer,
                   taken0, res, count_read, rerr, rret, nReadSys, nReadCb, r_tag>>

\* poll returns -1 with another errno: g_set_error; return -1
SyncPollFail ==
    /\ rpc = "s_poll"
    /\ r_errno' = "other"
    /\ rerr' = "io"
    /\ rret' = <<-1>>
    /\ rpc' = "s_done"
    /\ UNCHANGED <<sockVars, cancellable, c_cancelled, c_inflight, closeVars, count, buffer,
                   taken0, res, count_read, nReadSys, nReadCb, r_tag>>

\* mutant of SyncCheck: the cancellation test is left out of the loop
SyncCheck_nocheck ==
    /\ rpc = "s_check"
    /\ rpc' = "s_read"
    /\ UNCHANGED rerr
    /\ UNCHANGED <<sockVars, cancellable, c_cancelled, c_inflight, closeVars, count, buffer,
                   taken0, res, count_read, rret, nReadSys, nReadCb, r_tag, r_errno>>

\* top of while (1): if (g_cancellable_set_error_if_cancelled (...)) break;
SyncCheck ==
    /\ rpc = "s_check"
    /\ IF IsCancelled
       THEN rerr' = "cancelled" /\ rpc' = "s_ret"
       ELSE rpc' = "s_read" /\ UNCHANGED rerr
    /\ UNCHANGED <<sockVars, cancellable, c_cancelled, c_inflight, closeVars, count, buffer,
                   taken0, res, count_read, rret, nReadSys, nReadCb, r_tag, r_errno>>

\* mutant of SyncRead: cancellation is looked at after the bytes were read
SyncRead_latecancel ==
    /\ rpc = "s_read"
    /\ nReadSys' = nReadSys + 1
    /\ \/ /\ fd_open /\ taken < arrived
          /\ \E n \in 1..Min(count, arrived - taken) :
                /\ res' = <<n>>
                /\ buffer' = Filled(buffer, n)
                /\ taken' = taken + n
          /\ rerr' = IF IsCancelled THEN "cancelled" ELSE rerr
          /\ UNCHANGED r_errno
          /\ rpc' = "s_ret"
       \/ /\ fd_open /\ taken = arrived /\ eof
          /\ res' = <<0>>
          /\ rpc' = "s_ret"
          /\ UNCHANGED <<buffer, taken, rerr, r_errno>>
       \/ /\ fd_open /\ nReadSys < MaxRetries
          /\ res' = <<-1>>
          /\ r_errno' = "EINTR"
          /\ rpc' = "s_check"
          /\ UNCHANGED <<buffer, taken, rerr>>
       \/ /\ res' = <<-1>>
          /\ r_errno' = "other"
          /\ rerr' = "io"
          /\ rpc' = "s_ret"
          /\ UNCHANGED <<buffer, taken>>
    /\ UNCHANGED <<arrived, eof, cancellable, c_cancelled, c_inflight, closeVars, count, taken0,
                   count_read, rret, nReadCb, r_tag>>

\* res = read (fd, buffer, count) and the test of res: bytes are there and
\* some are stored, or the stream has ended, or read fails with EINTR
\* (continue), or it fails with another errno (g_set_error; break).  A read
\* on a socket that has nothing yet ends only in one of the two failures.
SyncRead ==
    /\ rpc = "s_read"
    /\ nReadSys' = nReadSys + 1
    /\ \/ /\ fd_open /\ taken < arrived
          /\ \E n \in 1..Min(count, arrived - taken) :
                /\ res' = <<n>>
                /\ buffer' = Filled(buffer, n)
                /\ taken' = taken + n
          /\ rpc' = "s_ret"
          /\ UNCHANGED <<rerr, r_errno>>
       \/ /\ fd_open /\ taken = arrived /\ eof
          /\ res' = <<0>>
          /\ rpc' = "s_ret"
          /\ UNCHANGED <<buffer, taken, rerr, r_errno>>
       \/ /\ fd_open /\ nReadSys < MaxRetries
          /\ res' = <<-1>>
          /\ r_errno' = "EINTR"
          /\ rpc' = "s_check"
          /\ UNCHANGED <<buffer, taken, rerr>>
       \/ /\ res' = <<-1>>
          /\ r_errno' = "other"
          /\ rerr' = "io"
          /\ rpc' = "s_ret"
          /\ UNCHANGED <<buffer, taken>>
    /\ UNCHANGED <<arrived, eof, cancellable, c_cancelled, c_inflight, closeVars, count, taken0,
                   count_read, rret, nReadCb, r_tag>>

\* mutant of SyncReturn: cancellation is looked at once more before the
\* return, and a result read () gave is thrown away for the cancelled error
SyncReturn_recheck ==
    /\ rpc = "s_ret"
    /\ IF IsCancelled
       THEN rret' = <<-1>> /\ rerr' = "cancelled"
       ELSE /\ UNCHANGED rerr
            /\ IF res = <<>> THEN \E g \in Garbage : rret' = <<g>>
                             ELSE rret' = res
    /\ rpc' = "s_done"
    /\ UNCHANGED <<sockVars, cancellable, c_cancelled, c_inflight, closeVars, count,
                   buffer, taken0, res, count_read, nReadSys, nReadCb, r_tag,
                   r_errno>>

\* return res; res has no value if the loop was left before read () was called
SyncReturn ==
    /\ rpc = "s_ret"
    /\ IF res = <<>> THEN \E g \in Garbage : rret' = <<g>>
                     ELSE rret' = res
    /\ rpc' = "s_done"
    /\ UNCHANGED <<sockVars, cancellable, c_cancelled, c_inflight, closeVars, count, buffer,
                   taken0, res, count_read, rerr, nReadSys, nReadCb, r_tag, r_errno>>

---------------------------------------------------------------------------
\* g_socket_input_stream_read_async: the ReadAsyncData is filled in and a
\* source on (fd, POLLIN, cancellable) with read_async_cb is attached
ReadAsyncCall(c) ==
    /\ BeginRead(c)
    /\ rpc' = "a_pending"
    /\ UNCHANGED <<sockVars, cancellable, c_cancelled, closeVars>>

\* the main loop dispatches the source: the descriptor is readable or the
\* cancellable has fired; read_async_cb begins
SourceDispatch ==
    /\ rpc = "a_pending"
    /\ taken < arrived \/ eof \/ ~fd_open \/ IsCancelled
    /\ rpc' = "a_check"
    /\ UNCHANGED <<sockVars, cancellable, c_cancelled, c_inflight, closeVars, count, buffer,
                   taken0, res, count_read, rerr, rret, nReadSys, nReadCb, r_tag, r_errno>>

\* read_async_cb, top of while (1): if cancelled { count_read = -1; break; }
CbCheck ==
    /\ rpc = "a_check"
    /\ IF IsCancelled
       THEN rerr' = "cancelled" /\ count_read' = <<-1>> /\ rpc' = "a_complete"
       ELSE rpc' = "a_read" /\ UNCHANGED <<rerr, count_read>>
    /\ UNCHANGED <<sockVars, cancellable, c_cancelled, c_inflight, closeVars, count, buffer,
                   taken0, res, rret, nReadSys, nReadCb, r_tag, r_errno>>

\* mutant of CbRead: errno is not compared with EINTR, so an interrupted
\* read () ends the loop with an error like any other failure
CbRead_noeintr ==
    /\ rpc = "a_read"
    /\ nReadSys' = nReadSys + 1
    /\ \/ /\ fd_open /\ taken < arrived
          /\ \E n \in 1..Min(count, arrived - taken) :
                /\ count_read' = <<n>>
                /\ buffer' = Filled(buffer, n)
                /\ taken' = taken + n
          /\ rpc' = "a_complete"
          /\ UNCHANGED <<rerr, r_errno>>
       \/ /\ fd_open /\ taken = arrived /\ eof
          /\ count_read' = <<0>>
          /\ rpc' = "a_complete"
          /\ UNCHANGED <<buffer, taken, rerr, r_errno>>
       \/ /\ fd_open /\ nReadSys < MaxRetries
          /\ count_read' = <<-1>>
          /\ r_errno' = "EINTR"
          /\ rerr' = "io"
          /\ rpc' = "a_complete"
          /\ UNCHANGED <<buffer, taken>>
       \/ /\ count_read' = <<-1>>
          /\ r_errno' = "other"
          /\ rerr' = "io"
          /\ rpc' = "a_complete"
          /\ UNCHANGED <<buffer, taken>>
    /\ UNCHANGED <<arrived, eof, cancellable, c_cancelled, c_inflight, closeVars, count, taken0,
                   res, rret, nReadCb, r_tag>>

\* read_async_cb: count_read = read (fd, data->buffer, data->count) and the
\* test of count_read
CbRead ==
    /\ rpc = "a_read"
    /\ nReadSys' = nReadSys + 1
    /\ \/ /\ fd_open /\ taken < arrived
          /\ \E n \in 1..Min(count, arrived - taken) :
                /\ count_read' = <<n>>
                /\ buffer' = Filled(buffer, n)
                /\ taken' = taken + n
          /\ rpc' = "a_complete"
          /\ UNCHANGED <<rerr, r_errno>>
       \/ /\ fd_open /\ taken = arrived /\ eof
          /\ count_read' = <<0>>
          /\ rpc' = "a_complete"
          /\ UNCHANGED <<buffer, taken, rerr, r_errno>>
       \/ /\ fd_open /\ nReadSys < MaxRetries
          /\ count_read' = <<-1>>
          /\ r_errno' = "EINTR"
          /\ rpc' = "a_check"
          /\ UNCHANGED <<buffer, taken, rerr>>
       \/ /\ count_read' = <<-1>>
          /\ r_errno' = "other"
          /\ rerr' = "io"
          /\ rpc' = "a_complete"
          /\ UNCHANGED <<buffer, taken>>
    /\ UNCHANGED <<arrived, eof, cancellable, c_cancelled, c_inflight, closeVars, count, taken0,
                   res, rret, nReadCb, r_tag>>

\* mutant of CbComplete: the result is completed in idle
\* (g_simple_async_result_complete_in_idle), so the caller's callback has
\* not been called when read_async_cb returns
CbComplete_in_idle ==
    /\ rpc = "a_complete"
    /\ rret' = count_read
    /\ r_tag' = "g_socket_input_stream_read_async"
    /\ rpc' = "a_done"
    /\ UNCHANGED <<sockVars, cancellable, c_cancelled, c_inflight, closeVars, count, buffer,
                   taken0, res, count_read, rerr, nReadSys, nReadCb, r_errno>>

\* read_async_cb after the loop: the GSimpleAsyncResult gets count_read as
\* its op_res and, if count_read == -1, the error; it is completed at once,
\* which calls the caller's callback; return FALSE removes the source
CbComplete ==
    /\ rpc = "a_complete"
    /\ rret' = count_read
    /\ nReadCb' = nReadCb + 1
    /\ r_tag' = "g_socket_input_stream_read_async"
    /\ rpc' = "a_done"
    /\ UNCHANGED <<sockVars, cancellable, c_cancelled, c_inflight, closeVars, count, buffer,
                   taken0, res, count_read, rerr, nReadSys, r_errno>>

---------------------------------------------------------------------------
\* the close () system call on priv->fd and what it answers: 0, or -1 (EBADF
\* when the descriptor is not open; EIO or EINTR otherwise, after which the
\* descriptor may or may not still be open)
SysClose(ok) ==
    /\ nCloseSys' = nCloseSys + 1
    /\ ok \in (IF fd_open THEN BOOLEAN ELSE {FALSE})
    /\ IF ok THEN fd_open' = FALSE ELSE fd_open' \in {fd_open, FALSE}

\* mutant of g_socket_input_stream_close: close_fd_at_close is not consulted
g_socket_input_stream_close_always ==
    /\ nCloseOps < MaxCloseOps
    /\ cpc = "idle"
    /\ nCloseOps' = nCloseOps + 1
    /\ \E ok \in BOOLEAN :
          /\ SysClose(ok)
          /\ closeRets' = Append(closeRets, ok)
          /\ closeErr' = ~ok
    /\ UNCHANGED <<sockVars, cancellable, c_cancelled, c_inflight, readVars, close_fd_at_close,
                   cpc, c_result, c_tag, finishRets>>

\* g_socket_input_stream_close, from call to return
g_socket_input_stream_close ==
    /\ nCloseOps < MaxCloseOps
    /\ cpc = "idle"
    /\ nCloseOps' = nCloseOps + 1
    /\ IF ~close_fd_at_close
       THEN /\ closeRets' = Append(closeRets, TRUE)
            /\ UNCHANGED <<fd_open, nCloseSys, closeErr>>
       ELSE \E ok \in BOOLEAN :
              /\ SysClose(ok)
              /\ closeRets' = Append(closeRets, ok)
              /\ closeErr' = ~ok
    /\ UNCHANGED <<sockVars, cancellable, c_cancelled, c_inflight, readVars, close_fd_at_close,
                   cpc, c_result, c_tag, finishRets>>

\* mutant of g_socket_input_stream_close_async: the descriptor is closed in
\* the call itself, before the idle source is attached
g_socket_input_stream_close_async_now ==
    /\ nCloseOps < MaxCloseOps
    /\ cpc = "idle"
    /\ nCloseOps' = nCloseOps + 1
    /\ cpc' = "scheduled"
    /\ \E ok \in BOOLEAN : SysClose(ok)
    /\ UNCHANGED <<sockVars, cancellable, c_cancelled, c_inflight, readVars, close_fd_at_close,
                   closeRets, closeErr, c_result, c_tag, finishRets>>

\* g_socket_input_stream_close_async: an idle source with close_async_cb is
\* attached
g_socket_input_stream_close_async ==
    /\ nCloseOps < MaxCloseOps
    /\ cpc = "idle"
    /\ nCloseOps' = nCloseOps + 1
    /\ cpc' = "scheduled"
    /\ UNCHANGED <<sockVars, cancellable, c_cancelled, c_inflight, readVars, close_fd_at_close,
                   fd_open, nCloseSys, closeRets, closeErr, c_result, c_tag, finishRets>>

\* close_async_cb, run by the main loop when idle: the close, then the
\* GSimpleAsyncResult, which gets the error if (!result) and is completed at
\* once; return FALSE removes the idle source
close_async_cb ==
    /\ cpc = "scheduled"
    /\ IF ~close_fd_at_close
       THEN /\ c_result' = Append(c_result, "none")
            /\ UNCHANGED <<fd_open, nCloseSys>>
       ELSE \E ok \in BOOLEAN :
              /\ SysClose(ok)
              /\ c_result' = Append(c_result, IF ok THEN "none" ELSE "io")
    /\ c_tag' = Append(c_tag, "g_socket_input_stream_close_async")
    /\ cpc' = "idle"
    /\ UNCHANGED <<sockVars, cancellable, c_cancelled, c_inflight, readVars, close_fd_at_close,
                   nCloseOps, closeRets, closeErr, finishRets>>

\* mutant of g_socket_input_stream_close_finish: the finisher hands the
\* result's error on and returns FALSE when there is one
g_socket_input_stream_close_finish_propagate ==
    /\ Len(finishRets) < Len(c_result)
    /\ LET e == c_result[Len(finishRets) + 1]
       IN  finishRets' = Append(finishRets, [ret |-> e = "none", error |-> e])
    /\ UNCHANGED <<sockVars, cancellable, c_cancelled, c_inflight, readVars, close_fd_at_close,
                   fd_open, nCloseOps, nCloseSys, closeRets, closeErr, cpc, c_result,
                   c_tag>>

\* g_socket_input_stream_close_finish, called by the caller's callback for
\* a completed result: return TRUE, with *error left as it was
g_socket_input_stream_close_finish ==
    /\ Len(finishRets) < Len(c_result)
    /\ finishRets' = Append(finishRets, [ret |-> TRUE, error |-> "none"])
    /\ UNCHANGED <<sockVars, cancellable, c_cancelled, c_inflight, readVars, close_fd_at_close,
                   fd_open, nCloseOps, nCloseSys, closeRets, closeErr, cpc, c_result, c_tag>>

---------------------------------------------------------------------------
\* the masks SpecMask applies ih_mask_to_EventFlags to: at most MaxKindBits
\* change-kind bits, with or without IN_ISDIR, with or without a bit the
\* switch does not name
MaskInputs ==
    {k \cup d \cup o : k \in {x \in SUBSET KindBits : Cardinality(x) <= MaxKindBits},
                       d \in {{}, {IN_ISDIR}}, o \in {{}, {IN_ONESHOT}}}

MaskInit ==
    /\ mk_mask \in MaskInputs
    /\ mk_res = <<>>

\* eflags = ih_mask_to_EventFlags (mask)
MaskApply ==
    /\ mk_res = <<>>
    /\ mk_res' = <<ih_mask_to_EventFlags(mk_mask)>>
    /\ UNCHANGED mk_mask

\* the next mask
MaskPick ==
    /\ mk_res # <<>>
    /\ mk_mask' \in MaskInputs
    /\ mk_res' = <<>>

\* the parts of the state a specification does not use stay as they start
MaskIdle == mk_mask = {} /\ mk_res = <<>>

InitMask == MaskInit /\ IhInit /\ StreamIdle
NextMask ==
    \/ MaskApply /\ UNCHANGED <<ihVars, stVars>>
    \/ MaskPick /\ UNCHANGED <<ihVars, stVars>>
SpecMask == InitMask /\ [][NextMask]_vars

InitIh == IhInit /\ MaskIdle /\ StreamIdle
NextIh ==
    \/ \E t \in Threads : StartupLock(t) /\ UNCHANGED <<mkVars, stVars>>
    \/ \E t \in Threads : StartupBody(t) /\ UNCHANGED <<mkVars, stVars>>
    \/ \E t \in Threads : StartupReturn(t) /\ UNCHANGED <<mkVars, stVars>>
    \/ \E t \in Callers, s \in Subs : AddLock(t, s) /\ UNCHANGED <<mkVars, stVars>>
    \/ \E t \in Callers : AddStart(t) /\ UNCHANGED <<mkVars, stVars>>
    \/ \E t \in Callers : AddIm(t) /\ UNCHANGED <<mkVars, stVars>>
    \/ \E t \in Callers : AddReturn(t) /\ UNCHANGED <<mkVars, stVars>>
    \/ \E t \in Callers, s \in Subs : CancelLock(t, s) /\ UNCHANGED <<mkVars, stVars>>
    \/ \E t \in Callers : CancelCheck(t) /\ UNCHANGED <<mkVars, stVars>>
    \/ \E t \in Callers : CancelImRm(t) /\ UNCHANGED <<mkVars, stVars>>
    \/ \E t \in Callers : CancelIpStop(t) /\ UNCHANGED <<mkVars, stVars>>
    \/ \E t \in Callers : CancelReturn(t) /\ UNCHANGED <<mkVars, stVars>>
    \/ \E s \in Subs, m \in IhEventMasks, n \in Names :
          KernelRead(s, m, n) /\ UNCHANGED <<mkVars, stVars>>
    \/ KernelDispatch /\ UNCHANGED <<mkVars, stVars>>
    \/ KernelReturn /\ UNCHANGED <<mkVars, stVars>>
    \/ \E s \in Subs, e \in BOOLEAN : MissingScan(s, e) /\ UNCHANGED <<mkVars, stVars>>
    \/ MissingReturn /\ UNCHANGED <<mkVars, stVars>>
    \/ \E c \in CallbackThreads, fn \in {"add_wait", "cancel_wait"}, s \in Subs :
          TargetReenters(c, fn, s) /\ UNCHANGED <<mkVars, stVars>>
SpecIh == InitIh /\ [][NextIh]_vars

InitStream == StreamInit /\ IhInit /\ MaskIdle
NextStream ==
    \/ Arrive /\ UNCHANGED <<mkVars, ihVars>>
    \/ PeerShutdown /\ UNCHANGED <<mkVars, ihVars>>
    \/ CancelFire /\ UNCHANGED <<mkVars, ihVars>>
    \/ \E c \in 1..BufSize : ReadCall(c) /\ UNCHANGED <<mkVars, ihVars>>
    \/ SyncPollReady /\ UNCHANGED <<mkVars, ihVars>>
    \/ SyncPollEintr /\ UNCHANGED <<mkVars, ihVars>>
    \/ SyncPollFail /\ UNCHANGED <<mkVars, ihVars>>
    \/ SyncCheck /\ UNCHANGED <<mkVars, ihVars>>
    \/ SyncRead /\ UNCHANGED <<mkVars, ihVars>>
    \/ SyncReturn /\ UNCHANGED <<mkVars, ihVars>>
    \/ \E c \in 1..BufSize : ReadAsyncCall(c) /\ UNCHANGED <<mkVars, ihVars>>
    \/ SourceDispatch /\ UNCHANGED <<mkVars, ihVars>>
    \/ CbCheck /\ UNCHANGED <<mkVars, ihVars>>
    \/ CbRead /\ UNCHANGED <<mkVars, ihVars>>
    \/ CbComplete /\ UNCHANGED <<mkVars, ihVars>>
    \/ g_socket_input_stream_close /\ UNCHANGED <<mkVars, ihVars>>
    \/ g_socket_input_stream_close_async /\ UNCHANGED <<mkVars, ihVars>>
    \/ close_async_cb /\ UNCHANGED <<mkVars, ihVars>>
    \/ g_socket_input_stream_close_finish /\ UNCHANGED <<mkVars, ihVars>>
SpecStream == InitStream /\ [][NextStream]_vars

\* read_async_cb is straight-line code run by the main loop: once it has
\* begun it goes on to its return (a read interrupted by a signal is
\* retried at most MaxRetries times in one operation)
ReadAsyncCbRuns == CbCheck \/ CbRead \/ CbComplete
SpecStreamLive == SpecStream /\ WF_stVars(ReadAsyncCbRuns)


(***************************************************************************)
(* The claims.                                                             *)
(***************************************************************************)

\* C1: once _ih_sub_cancel (s) has returned, no event is emitted to s's
\* target: a callback that runs for a sub whose cancelled flag is set makes
\* no emission call.  (The flag is written under the lock the callbacks run
\* under, so a flag that is set while a callback runs was set by a cancel
\* that has returned.)
C1_NoEmitAfterCancel ==
    \A i \in 1..Len(emits) : ~cancelled[emits[i].sub]

\* C2: whenever no public function is running, a sub whose cancelled flag
\* is set is in neither the kernel-watch set nor the missing-path set.
C2_CancelledInNoSet ==
    lock = NoThread => \A s \in Subs : cancelled[s] => s \notin watching \cup missing

\* C3: an event whose mask is in the ignored group leads to no emission
\* call: the value ih_mask_to_EventFlags gives for it is never passed on.
C3_IgnoredNotEmitted ==
    \A i \in 1..Len(emits) : emits[i].eflags # NoEvent

\* the mapping table of the specification, by change-kind bit
SpecTable(k) ==
    CASE k = IN_MODIFY -> G_DIRECTORY_MONITOR_EVENT_CHANGED
      [] k = IN_ATTRIB -> G_DIRECTORY_MONITOR_EVENT_ATTRIBUTE_CHANGED
      [] k \in {IN_MOVE_SELF, IN_MOVED_FROM, IN_DELETE, IN_DELETE_SELF}
                       -> G_DIRECTORY_MONITOR_EVENT_DELETED
      [] k \in {IN_CREATE, IN_MOVED_TO} -> G_DIRECTORY_MONITOR_EVENT_CREATED
      [] k = IN_UNMOUNT -> G_DIRECTORY_MONITOR_EVENT_UNMOUNTED
      [] k \in {IN_Q_OVERFLOW, IN_OPEN, IN_CLOSE_WRITE, IN_CLOSE_NOWRITE,
                IN_ACCESS, IN_IGNORED} -> NoEvent

\* C4: for a mask of one change-kind bit, with or without the is-directory
\* bit, ih_mask_to_EventFlags gives the event of the specification's table,
\* and the value it gives for the ignored group is no real event.
C4_MaskTable ==
    /\ NoEvent \notin RealEvents
    /\ mk_res # <<>> =>
          \A k \in KindBits :
             mk_mask \in {{k}, {k, IN_ISDIR}} => mk_res[1] = SpecTable(k)

\* C4, witness: moved-to with the is-directory bit has been mapped to Created
C4_Witness ==
    /\ mk_mask = {IN_MOVED_TO, IN_ISDIR}
    /\ mk_res = <<G_DIRECTORY_MONITOR_EVENT_CREATED>>

\* C5, as stated: when _ih_sub_add is about to return, the sub is in
\* exactly one of the two sets, the kernel-watch set iff _ip_start_watching
\* succeeded.
C5_ExactlyOneSet ==
    \A t \in Threads :
       pc[t] = "add_ret" =>
          /\ (arg[t] \in watching) # (arg[t] \in missing)
          /\ (arg[t] \in watching) <=> started[t]

\* C5, amended: _ih_sub_add returns TRUE; _im_add is called exactly when
\* _ip_start_watching failed; on return the sub is in the kernel-watch set
\* if the watch started and in the missing-path set if not; and a sub that
\* was in neither set when the call took the lock is in exactly one of them
\* on return, the kernel-watch set iff the watch started.
C5_AddRegisters ==
    /\ [](\A t \in Threads :
            /\ pc[t] = "add_im" => ~started[t]
            /\ pc[t] = "add_ret" =>
                  /\ started[t] => arg[t] \in watching
                  /\ ~started[t] => arg[t] \in missing
                  /\ ~wasReg[t] =>
                        /\ (arg[t] \in watching) # (arg[t] \in missing)
                        /\ (arg[t] \in watching) <=> started[t])
    /\ [][\A t \in Threads :
            /\ (pc[t] = "add_ret" /\ pc'[t] = "idle") => ret' = <<TRUE>>
            /\ (pc[t] = "add_start" /\ started'[t]) =>
                  (pc'[t] = "add_ret" /\ missing' = missing)
            /\ (pc[t] = "add_start" /\ ~started'[t]) => pc'[t] = "add_im"]_vars

\* C5, witness: an add of a sub that was in neither set is about to return
\* after _ip_start_watching failed and _im_add registered the sub
C5_Witness ==
    \E t \in Threads :
       /\ pc[t] = "add_ret" /\ ~started[t] /\ ~wasReg[t]
       /\ arg[t] \in missing /\ arg[t] \notin watching

\* C6: _ih_sub_cancel on a sub whose flag is set changes neither the flag
\* nor the two sets and goes straight to the return; on a sub whose flag is
\* clear it sets the flag, then removes the sub from the missing-path
\* tracker, then from the kernel watch adapter, in that order.
C6_CancelIdempotentOrdered ==
    /\ [](\A t \in Threads :
            /\ pc[t] = "cancel_im_rm" => cancelled[arg[t]]
            /\ pc[t] = "cancel_ip_stop" =>
                  cancelled[arg[t]] /\ arg[t] \notin missing)
    /\ [][\A t \in Threads :
            /\ pc[t] = "cancel_check" =>
                  /\ watching' = watching /\ missing' = missing
                  /\ cancelled[arg[t]] =>
                        (cancelled' = cancelled /\ pc'[t] = "cancel_ret")
                  /\ ~cancelled[arg[t]] =>
                        (cancelled'[arg[t]] /\ pc'[t] = "cancel_im_rm")
            /\ pc[t] = "cancel_im_rm" =>
                  /\ watching' = watching /\ cancelled' = cancelled
                  /\ arg[t] \notin missing' /\ pc'[t] = "cancel_ip_stop"
            /\ pc[t] = "cancel_ip_stop" =>
                  /\ missing' = missing /\ cancelled' = cancelled
                  /\ arg[t] \notin watching' /\ pc'[t] = "cancel_ret"
            /\ pc[t] = "cancel_ret" =>
                  (subVars' = subVars /\ pc'[t] = "idle" /\ ret' = <<TRUE>>)]_vars

\* C6, witness: _ih_sub_cancel holds the lock for a sub that an earlier
\* call has already cancelled
C6_Witness ==
    \E t \in Threads : pc[t] = "cancel_check" /\ cancelled[arg[t]]

\* C7: over any calls of _ih_startup, the kernel watch adapter, the
\* missing-path tracker and the diagnostics are each initialised at most
\* once, and a failure of _ip_startup is warned about at most once.
C7_StartupOnce ==
    /\ nIpStartup - nWarn <= 1
    /\ nImStartup <= 1
    /\ nIdStartup <= 1
    /\ nWarn <= 1

\* C8: a synchronous read that ends with the cancelled error returns the
\* failure value -1, never a byte count.
C8_CancelledReadFails ==
    (rpc = "s_done" /\ rerr = "cancelled") => rret = <<-1>>

\* C9: whenever a read, synchronous or asynchronous, has the cancelled
\* error, it has consumed no byte of the descriptor and has written nothing
\* to the caller's buffer.
C9_CancelledNoEffect ==
    rerr = "cancelled" => (taken = taken0 /\ buffer = Zeros)

\* C9, witness: a synchronous read has returned cancelled after a read ()
\* that failed with EINTR, while bytes were waiting on the socket
C9_Witness ==
    /\ rpc = "s_done" /\ rerr = "cancelled"
    /\ nReadSys >= 1 /\ taken < arrived

\* C10: with close_fd_at_close false, every close and every close_async_cb
\* succeeds without a close () call, and the descriptor stays open.
C10_CloseNoop ==
    ~close_fd_at_close =>
       /\ nCloseSys = 0
       /\ fd_open
       /\ ~closeErr
       /\ \A i \in 1..Len(closeRets) : closeRets[i] = TRUE
       /\ \A i \in 1..Len(c_result) : c_result[i] = "none"

\* C10, witness: close has been called twice on a stream whose
\* close_fd_at_close is false
C10_Witness ==
    ~close_fd_at_close /\ Len(closeRets) = 2

\* C11: a read_async registration gets exactly one completion: none while
\* the source is pending or read_async_cb is in its loop, one once
\* read_async_cb has returned; the completion is made by read_async_cb
\* itself, in the step in which it returns, with the result tagged
\* g_socket_input_stream_read_async and carrying count_read (and the error
\* exactly when count_read is -1); after its return the callback does not
\* run again unless read_async is called again; and a callback that has
\* begun reaches that one completion.
C11_OneCompletion ==
    /\ [](/\ rpc \in {"a_pending", "a_check", "a_read", "a_complete"} => nReadCb = 0
          /\ rpc = "a_done" =>
                /\ nReadCb = 1
                /\ r_tag = "g_socket_input_stream_read_async"
                /\ rret = count_read
                /\ (rret = <<-1>>) <=> (rerr # "none"))
    /\ [][/\ nReadCb' = nReadCb + 1 => (rpc = "a_complete" /\ rpc' = "a_done")
          /\ (rpc = "a_complete" /\ rpc' # rpc) =>
                (rpc' = "a_done" /\ nReadCb' = nReadCb + 1)
          /\ rpc = "a_done" => rpc' \in {"a_done", "a_pending", "s_poll", "s_check"}]_vars
    /\ (rpc = "a_check" ~> rpc = "a_done")

\* C11, witness: read_async_cb has completed a read of one byte
C11_Witness ==
    /\ rpc = "a_done" /\ nReadCb = 1 /\ rret = <<1>> /\ rerr = "none"
    /\ r_tag = "g_socket_input_stream_read_async"


\* C12: the close_async call only attaches the idle source: in that step
\* the descriptor is not closed, no close () is made and no result is
\* completed.  A result is completed only by close_async_cb on the idle
\* turn, and that turn runs the logic of the synchronous close once: no
\* close () when close_fd_at_close is false, one close () otherwise, one
\* result tagged g_socket_input_stream_close_async whose error slot is set
\* exactly when the close () failed, and the idle source is gone after it.
C12_CloseAsyncDeferred ==
    [][/\ (cpc = "idle" /\ cpc' = "scheduled") =>
          /\ fd_open' = fd_open /\ nCloseSys' = nCloseSys
          /\ c_result' = c_result /\ c_tag' = c_tag
       /\ (c_result' # c_result \/ c_tag' # c_tag) =>
             (cpc = "scheduled" /\ cpc' = "idle")
       /\ (cpc = "scheduled" /\ cpc' # cpc) =>
             /\ cpc' = "idle"
             /\ Len(c_result') = Len(c_result) + 1
             /\ SubSeq(c_result', 1, Len(c_result)) = c_result
             /\ c_tag' = Append(c_tag, "g_socket_input_stream_close_async")
             /\ nCloseSys' = nCloseSys + (IF close_fd_at_close THEN 1 ELSE 0)
             /\ ~close_fd_at_close =>
                   (fd_open' = fd_open /\ c_result'[Len(c_result')] = "none")
             /\ c_result'[Len(c_result')] = "none" =>
                   (close_fd_at_close => (fd_open /\ ~fd_open'))
             /\ c_result'[Len(c_result')] = "io" => close_fd_at_close
       /\ (cpc = "scheduled" /\ cpc' = cpc) =>
             (nCloseSys' = nCloseSys /\ fd_open' = fd_open)]_vars

\* C12, witness: the idle turn of a close_async on a stream that owns its
\* descriptor has closed it and completed the result
C12_Witness ==
    /\ close_fd_at_close /\ cpc = "idle" /\ ~fd_open
    /\ nCloseSys = 1 /\ closeRets = <<>>
    /\ c_result = <<"none">> /\ c_tag = <<"g_socket_input_stream_close_async">>


\* C13: every g_socket_input_stream_close_finish call returns TRUE and
\* sets no error, also for a result whose close () failed; the failure is
\* in the error slot of that result, where close_async_cb put it.
C13_CloseFinishSucceeds ==
    /\ \A i \in 1..Len(finishRets) :
          finishRets[i].ret = TRUE /\ finishRets[i].error = "none"
    /\ \A i \in 1..Len(c_result) :
          c_result[i] = "io" => (close_fd_at_close /\ nCloseSys >= 1)

\* C13, witness: close_finish has been called for a result whose close ()
\* failed
C13_Witness ==
    /\ Len(finishRets) >= 1
    /\ c_result[1] = "io"
    /\ finishRets[1].ret = TRUE


\* what an emission call hands to the target about the changed entity being
\* a directory: the entry points are called with (monitor, child, NULL,
\* eflags), so a flag is handed over only if the call carries one
EmittedIsDirectory(e) == "is_directory" \in DOMAIN e /\ e.is_directory

\* the missing-path scan calls ih_not_missing_callback for sub s in this step
MissingResolved(s) ==
    /\ mpc = "idle" /\ mpc' = "called"
    /\ s \in missing /\ s \notin missing'

\* C14, as stated: for a sub without a filename that is in the missing-path
\* set, ih_not_missing_callback makes exactly one emission, and the event
\* it emits is Created with the is-directory flag set.
C14_CreatedIsDirectory ==
    [][\A s \in Subs :
         (MissingResolved(s) /\ ~HasFilename(s)) =>
            /\ Len(emits') = 1
            /\ emits'[1].sub = s
            /\ emits'[1].eflags = G_DIRECTORY_MONITOR_EVENT_CREATED
            /\ EmittedIsDirectory(emits'[1])]_vars

\* C14, amended: for a sub without a filename that is in the missing-path
\* set, ih_not_missing_callback makes exactly one emission, through the
\* entry point of the target's kind, for the directory path itself, and
\* the event is Created; the is-directory bit is set only in the mask the
\* callback synthesizes and ih_mask_to_EventFlags strips it, so the
\* emission hands no is-directory flag to the target.
C14_MissingCreated ==
    [][\A s \in Subs :
         (MissingResolved(s) /\ ~HasFilename(s)) =>
            /\ Len(emits') = 1
            /\ emits'[1].sub = s
            /\ emits'[1].child = <<s>>
            /\ emits'[1].eflags = G_DIRECTORY_MONITOR_EVENT_CREATED
            /\ emits'[1].via = (IF G_IS_DIRECTORY_MONITOR(s)
                                THEN "g_directory_monitor_emit_event"
                                ELSE "g_file_monitor_emit_event")
            /\ ~EmittedIsDirectory(emits'[1])
            /\ ih_mask_to_EventFlags({IN_CREATE, IN_ISDIR}) = emits'[1].eflags]_vars

\* C14, witness: the missing-path scan has called ih_not_missing_callback
\* for the directory sub, which an add had put in the missing-path set, and
\* the callback has emitted Created
C14_Witness ==
    /\ mpc = "called" /\ lock = MissingThread
    /\ ~cancelled["dsub"] /\ "dsub" \in watching
    /\ Len(emits) = 1 /\ emits[1].sub = "dsub"
    /\ emits[1].eflags = G_DIRECTORY_MONITOR_EVENT_CREATED


\* C15: emission calls are made with inotify_lock held by the path that
\* runs the callback, and a target's handler that calls _ih_sub_add or
\* _ih_sub_cancel from inside an emission stays at that function's G_LOCK
\* for ever: the call never returns, the lock is never released, and from
\* then on nothing in the registry changes (every other caller of a public
\* function, the kernel-event path and the missing scan wait for the lock).
C15_ReentryDeadlocks ==
    /\ [](emits # <<>> => lock \in CallbackThreads)
    /\ [](\A c \in CallbackThreads :
            pc[c] \in {"add_wait", "cancel_wait"} => lock = c)
    /\ [][\A c \in CallbackThreads :
            pc[c] \in {"add_wait", "cancel_wait"} => ihVars' = ihVars]_vars

\* C15, witness: the handler of a target, called by an emission of
\* ih_event_callback, has called _ih_sub_cancel and is at its G_LOCK
C15_Witness ==
    /\ kpc = "emitted" /\ lock = KernelThread
    /\ pc[KernelThread] = "cancel_wait"
    /\ \A t \in Threads : pc[t] = "idle"


\* where a caller is between the G_LOCK and the G_UNLOCK of a public function
BodyPcs == {"su_body", "su_ret_cached", "su_ret_fail", "su_ret_ok",
            "add_start", "add_im", "add_ret",
            "cancel_check", "cancel_im_rm", "cancel_ip_stop", "cancel_ret"}

\* C16: a caller that is between G_LOCK and G_UNLOCK of _ih_startup,
\* _ih_sub_add or _ih_sub_cancel holds inotify_lock, so at most one caller
\* is there at a time; the latch, sub->cancelled and the two sets change
\* only in a step of the caller that holds the lock (the sets also in the
\* missing scan, which takes the lock itself); and every return of the
\* three functions - initialised before, initialisation failed, success -
\* releases the lock, so no caller holds it outside a function.
C16_LockDiscipline ==
    /\ [](/\ \A t \in Callers : pc[t] \in BodyPcs => lock = t
          /\ Cardinality({t \in Callers : pc[t] \in BodyPcs}) <= 1
          /\ lock \in Threads => pc[lock] \in BodyPcs)
    /\ [][/\ (cancelled' # cancelled \/ initialized' # initialized
                 \/ result' # result \/ nIpStartup' # nIpStartup) =>
                (lock \in Callers /\ lock' = lock /\ pc[lock] \in BodyPcs
                   /\ pc'[lock] \in BodyPcs)
          /\ (watching' # watching \/ missing' # missing) =>
                \/ (lock \in Callers /\ lock' = lock /\ pc[lock] \in BodyPcs
                      /\ pc'[lock] \in BodyPcs)
                \/ (lock = NoThread /\ lock' = MissingThread)
          /\ \A t \in Threads :
                (pc[t] \in BodyPcs /\ pc'[t] = "idle") =>
                   (lock = t /\ lock' = NoThread)]_vars

\* C16, witness: _ih_startup has returned FALSE on the path where
\* _ip_startup failed, and the lock is free
C16_Witness ==
    /\ lock = NoThread /\ ret = <<FALSE>> /\ nWarn = 1 /\ ~initialized
    /\ \A t \in Threads : pc[t] = "idle"


\* C17: when the kernel-event path processes an event whose mask is one
\* change-kind bit of the table's real events, with or without the
\* is-directory bit, ih_event_callback makes exactly one emission call, for
\* the event's sub, through g_directory_monitor_emit_event if the sub's
\* target is a directory monitor and through g_file_monitor_emit_event if
\* it is a file monitor, with the event the table gives for the mask.
C17_OneEmissionPerEvent ==
    [][(kpc = "idle" /\ kpc' = "emitted") =>
         \A k \in KindBits :
            (Head(eq).mask \ {IN_ISDIR} = {k} /\ SpecTable(k) \in RealEvents) =>
               /\ Len(emits') = 1
               /\ emits'[1].sub = Head(eq).sub
               /\ emits'[1].eflags = SpecTable(k)
               /\ emits'[1].via =
                     (IF UserData(Head(eq).sub) = "GDirectoryMonitor"
                      THEN "g_directory_monitor_emit_event"
                      ELSE "g_file_monitor_emit_event")
               /\ emits'[1].child =
                     (IF Head(eq).name = NoName
                      THEN <<Head(eq).sub, "/">>
                      ELSE <<Head(eq).sub, "/", Head(eq).name>>)]_vars

\* C17, witness: ih_event_callback has emitted Created through the
\* directory-monitor entry point for an event with the is-directory bit
C17_Witness ==
    /\ kpc = "emitted" /\ Len(emits) = 1
    /\ emits[1].via = "g_directory_monitor_emit_event"
    /\ emits[1].sub = "dsub"
    /\ emits[1].eflags = G_DIRECTORY_MONITOR_EVENT_CREATED
    /\ emits[1].child = <<"dsub", "/", "entry">>


\* C18: a read never ends with an error made from EINTR: an I/O error is
\* set only after a poll () or read () that failed with another errno, and
\* the operation then returns -1.  A read () that fails with EINTR sets no
\* error, consumes nothing and leads back to the cancellation test, and a
\* read () is only ever entered from that test having found no
\* cancellation.  After a failure with another errno the operation makes
\* no further read (), and a poll () failure ends the synchronous read
\* with the error before any read ().
C18_EintrRetried ==
    /\ [](/\ rerr = "io" => r_errno = "other"
          /\ rpc = "s_poll" => (rerr = "none" /\ nReadSys = 0)
          /\ (rpc \in {"s_done", "a_done"} /\ rerr = "io") => rret = <<-1>>)
    /\ [][/\ (rpc \in {"s_read", "a_read"} /\ rpc' # rpc /\ r_errno' = "EINTR"
               /\ (IF rpc = "s_read" THEN res' ELSE count_read') = <<-1>>) =>
                /\ rpc' = (IF rpc = "s_read" THEN "s_check" ELSE "a_check")
                /\ rerr' = "none" /\ buffer' = buffer /\ taken' = taken
          /\ (rpc' \in {"s_read", "a_read"} /\ rpc' # rpc) =>
                /\ rpc = (IF rpc' = "s_read" THEN "s_check" ELSE "a_check")
                /\ ~IsCancelled
          /\ (rpc \in {"s_read", "a_read"} /\ rerr' = "io") =>
                rpc' = (IF rpc = "s_read" THEN "s_ret" ELSE "a_complete")
          /\ (rerr = "io" /\ rerr' = "io") => nReadSys' = nReadSys
          /\ (rpc = "s_poll" /\ rpc' = "s_done") =>
                (rerr' = "io" /\ rret' = <<-1>> /\ nReadSys' = 0)
          /\ (rpc = "s_poll" /\ rpc' = "s_poll") => rerr' = "none"]_vars

\* C18, witness: a synchronous read whose first read () was interrupted has
\* returned the byte the second read () got, with no error
C18_Witness ==
    /\ rpc = "s_done" /\ r_errno = "EINTR" /\ nReadSys = 2
    /\ rerr = "none" /\ rret = <<1>>


\* what the operation's last read () returned: res of the synchronous read,
\* count_read of read_async_cb
LastRead == IF rpc \in {"s_check", "s_read", "s_ret", "s_done"} THEN res ELSE count_read

\* C19: a cancellation that fires while the operation is between its
\* cancellation test and the return of read () does not stop that read ():
\* no step of read () sets the cancelled error, and if the read () gives a
\* byte count the operation ends with that count and no error.  The
\* cancellation stays set and is seen by the next cancellation test, which
\* the same operation reaches only by an EINTR retry; that test sets the
\* cancelled error and no read () follows it.
C19_CancelAtCheckOnly ==
    /\ [](c_inflight =>
            /\ c_cancelled
            /\ rpc \in {"s_read", "s_check", "s_ret", "s_done",
                         "a_read", "a_check", "a_complete", "a_done"}
            /\ (rpc \in {"s_ret", "s_done", "a_complete", "a_done"}
                  /\ LastRead # <<>> /\ LastRead[1] >= 0) =>
                  rerr = "none"
            /\ (rpc \in {"s_done", "a_done"}
                  /\ LastRead # <<>> /\ LastRead[1] >= 0) =>
                  rret = LastRead
            /\ rerr = "cancelled" => (r_errno = "EINTR" /\ LastRead = <<-1>>))
    /\ [][/\ (rpc \in {"s_read", "a_read"} /\ rpc' # rpc) =>
                /\ rerr' # "cancelled"
                /\ nReadSys' = nReadSys + 1
          /\ c_cancelled => c_cancelled'
          /\ (rpc \in {"s_check", "a_check"} /\ rpc' # rpc /\ IsCancelled) =>
                /\ rerr' = "cancelled"
                /\ rpc' = (IF rpc = "s_check" THEN "s_ret" ELSE "a_complete")
          /\ rerr = "cancelled" /\ rerr' = "cancelled" => nReadSys' = nReadSys]_vars

\* C19, witness: the cancellable fired while the synchronous read was
\* between its test and read (), and the read has returned one byte
C19_Witness ==
    /\ c_inflight /\ rpc = "s_done"
    /\ rerr = "none" /\ rret = <<1>> /\ taken = taken0 + 1


\* C20: ih_mask_to_EventFlags compares the whole mask, after the
\* is-directory bit is taken out, with the case labels: a mask that is not
\* exactly one change-kind bit - two or more change-kind bits, no bit at
\* all, only bits the switch does not name, or a change-kind bit together
\* with such a bit - gives the value for ignored events, never the event of
\* one of its bits.
C20_WholeMaskMatch ==
    mk_res # <<>> =>
       LET m == mk_mask \ {IN_ISDIR} IN
       /\ Cardinality(m \cap KindBits) >= 2 => mk_res[1] = NoEvent
       /\ m = {} => mk_res[1] = NoEvent
       /\ m \cap KindBits = {} => mk_res[1] = NoEvent
       /\ (\A k \in KindBits : m # {k}) => mk_res[1] = NoEvent

\* C20, witness: modify together with attribute-change has been mapped to
\* the value for ignored events
C20_Witness ==
    /\ mk_mask = {IN_MODIFY, IN_ATTRIB}
    /\ mk_res = <<NoEvent>>


====
